---------------------------- MODULE Spec2Model ----------------------------
(***************************************************************************)
(* The ResearchAgent workflow engine (workers/src/agent.ts): the persisted *)
(* workspace state, the request draft, the chat turn (onRequest) with its  *)
(* phase handlers, and the gather/analyse run, split at the awaits of      *)
(* external calls (language model, arXiv search, KV index).                *)
(***************************************************************************)
EXTENDS Integers, Sequences, FiniteSets, TLC

\* ------------------------------------------------------------- bounds
\* Number of chat turns a behaviour holds.
MaxTurns == 3
\* Distinct paper identifiers the search service can return.
NumPapers == 2
\* Papers the searches of one gather run return in total (the code asks for 5
\* per search).
MaxFound == 2
\* Gather runs that can be in flight together.
MaxGathers == 2
\* Chat requests that can be in flight together (Spec takes them one at a time).
MaxRequests == 2

\* ---------------------------------------------------- program constants
\* plan.keywords.slice(0, 4)
SearchKeywordLimit == 4
\* searchArxiv(kw, 5)
ResultsPerSearch == 5
\* s.sources.slice(0, 10)
ListLimit == 10
\* sources.slice(0, 8)
AnalyzeLimit == 8

Reqs == 1..MaxRequests
Gathers == 1..MaxGathers
PaperIds == 1..NumPapers

\* ------------------------------------------------------------ strings
Sentinel == "__GENERATE_PLAN__"
PlanLabel == "Generate my research plan"
AskTopicText == "Please tell me your research topic first before generating a plan."
StillGatheringText == "Still gathering papers. Try again in a moment."
MoreAckText == "Searching for more papers. Say show progress to check."
ProgressText == "Research Progress"
NoPapersText == "No papers yet. Ask me to find more papers."
PapersListText == "Papers Found"
PlanText == "Research Plan"
ErrorText == "Something went wrong"
TypeErrorText == "Cannot read properties of undefined (reading 'trim')"
BodyWorkspaceId == "w1"

\* Trimmed message bodies ("" is a blank message), with what the code tests of a
\* message tabulated below.
AllMessages ==
  { "", Sentinel, "traffic forecasting plan", "show sources",
    "add more sources", "show progress and add more", "list papers then find more",
    "phd thesis on graph networks for city traffic",
    "undergrad course assignment about queueing at busy road junctions" }

\* The message bodies the turns of Spec carry.
Messages == {"", Sentinel, "traffic forecasting plan", "add more sources"}

\* lower.includes(phrase)
Includes(m, phrase) ==
  CASE m = Sentinel -> phrase = "plan"
    [] m = "traffic forecasting plan" -> phrase = "plan"
    [] m = "show sources" -> phrase = "show sources"
    [] m = "add more sources" -> phrase = "add more"
    [] m = "show progress and add more" -> phrase \in {"show progress", "add more"}
    [] m = "list papers then find more" -> phrase \in {"list papers", "find more"}
    [] m = "phd thesis on graph networks for city traffic" -> phrase \in {"phd", "thesis"}
    [] m = "undergrad course assignment about queueing at busy road junctions" ->
         phrase \in {"undergrad", "course", "assignment"}
    [] OTHER -> FALSE

\* msg.trim().split(/\s+/).length
WordCount(m) ==
  CASE m = "" -> 1
    [] m = Sentinel -> 1
    [] m = "traffic forecasting plan" -> 3
    [] m = "show sources" -> 2
    [] m = "add more sources" -> 3
    [] m = "show progress and add more" -> 5
    [] m = "list papers then find more" -> 5
    [] m = "phd thesis on graph networks for city traffic" -> 8
    [] m = "undergrad course assignment about queueing at busy road junctions" -> 9

IncludesAny(m, phrases) == \E p \in phrases : Includes(m, p)

ProgressTriggers == {"show progress", "summarize progress"}
ListTriggers == {"show papers", "show sources", "list papers"}
MoreTriggers == {"find more", "add more", "more papers"}

\* ------------------------------------------------------------- values
null == [null |-> TRUE]

Items(n) == [i \in 1..n |-> i]

Phases == <<"clarification", "planning", "gathering", "summarizing", "ongoing">>

PhaseRank(p) == CHOOSE i \in 1..Len(Phases) : Phases[i] = p

NoClarifications == [academic_level |-> "", purpose |-> "", focus_area |-> ""]

initialState ==
  [ workspaceId |-> "",
    topic |-> "",
    phase |-> "clarification",
    clarifications |-> NoClarifications,
    plan |-> null,
    sources |-> <<>>,
    paperInsights |-> <<>>,
    chatHistory |-> <<>>,
    lastUpdated |-> 0,
    pendingUserMsg |-> "",
    pendingAssistantMsg |-> "" ]

VARIABLES
  state,    \* this.state: the durably persisted workspace
  draft,    \* this.draft: the working copy shared by every task of the object
  req,      \* the chat requests: position and locals of each
  gather,   \* the gatherAndAnalyzeSources runs: position and locals of each
  now,      \* the clock read by patch(): it advances when a turn arrives
  log       \* the (recorded user message, reply) of every completed turn, in order

vars == <<state, draft, req, gather, now, log>>

\* ------------------------------------------------- state mutation protocol
initDraft(s) == s

patch(d, updates, t) ==
  [ f \in DOMAIN d |->
      IF f \in DOMAIN updates THEN updates[f]
      ELSE IF f = "lastUpdated" THEN t
      ELSE d[f] ]

flush(d) == d

\* commitPending as it would be if it wrote the pending pair over the history
\* instead of appending it.
commitPendingOverwrites(d, t) ==
  IF d.pendingUserMsg # "" /\ d.pendingAssistantMsg # ""
  THEN patch(d,
         [ chatHistory |->
             << [role |-> "user", content |-> d.pendingUserMsg],
                [role |-> "assistant", content |-> d.pendingAssistantMsg] >>,
           pendingUserMsg |-> "",
           pendingAssistantMsg |-> "" ], t)
  ELSE d

\* commitPending as it would be if it cleared the pending fields when the pair
\* is incomplete.
commitPendingClearing(d, t) ==
  IF d.pendingUserMsg # "" /\ d.pendingAssistantMsg # ""
  THEN patch(d,
         [ chatHistory |-> d.chatHistory \o
             << [role |-> "user", content |-> d.pendingUserMsg],
                [role |-> "assistant", content |-> d.pendingAssistantMsg] >>,
           pendingUserMsg |-> "",
           pendingAssistantMsg |-> "" ], t)
  ELSE patch(d, [pendingUserMsg |-> "", pendingAssistantMsg |-> ""], t)

\* commitPending as it would be if it appended the user message alone.
commitPendingUserOnly(d, t) ==
  IF d.pendingUserMsg # "" /\ d.pendingAssistantMsg # ""
  THEN patch(d,
         [ chatHistory |-> d.chatHistory \o
             << [role |-> "user", content |-> d.pendingUserMsg] >>,
           pendingUserMsg |-> "",
           pendingAssistantMsg |-> "" ], t)
  ELSE d

commitPending(d, t) ==
  IF d.pendingUserMsg # "" /\ d.pendingAssistantMsg # ""
  THEN patch(d,
         [ chatHistory |-> d.chatHistory \o
             << [role |-> "user", content |-> d.pendingUserMsg],
                [role |-> "assistant", content |-> d.pendingAssistantMsg] >>,
           pendingUserMsg |-> "",
           pendingAssistantMsg |-> "" ], t)
  ELSE d

\* ------------------------------------------------------- language model
\* What one callLLM can do: throw, or return a text.
LLMTexts == {"", "AI: Which dataset?"}
LLMOutcomes == [threw : {TRUE}, text : {""}] \cup [threw : {FALSE}, text : LLMTexts]

cleanOutput(raw) ==
  CASE raw = "AI: Which dataset?" -> "Which dataset?"
    [] OTHER -> raw

\* ------------------------------------------------- phase 1: clarification
\* extractFactsFromMessage as it would be if it wrote every fact it recognises,
\* also over fields already set.
extractFactsOverwriting(d, m, t) ==
  LET c == d.clarifications
      level ==
        IF IncludesAny(m, {"undergrad", "undergraduate", "bachelor"}) THEN "undergraduate"
        ELSE IF IncludesAny(m, {"phd", "doctoral", "doctorate"}) THEN "PhD student"
        ELSE ""
      purpose ==
        IF IncludesAny(m, {"thesis", "dissertation"}) THEN "thesis"
        ELSE IF IncludesAny(m, {"class", "course", "assignment", "homework"})
             THEN "class assignment"
        ELSE ""
      focus == IF WordCount(m) > 6 /\ d.topic # "" THEN m ELSE ""
  IN IF level # "" \/ purpose # "" \/ focus # ""
     THEN patch(d,
            [ clarifications |->
                [ academic_level |-> IF level # "" THEN level ELSE c.academic_level,
                  purpose |-> IF purpose # "" THEN purpose ELSE c.purpose,
                  focus_area |-> IF focus # "" THEN focus ELSE c.focus_area ] ], t)
     ELSE d

extractFactsFromMessage(d, m, t) ==
  LET c == d.clarifications
      level ==
        IF c.academic_level = ""
        THEN IF IncludesAny(m, {"undergrad", "undergraduate", "bachelor"}) THEN "undergraduate"
             ELSE IF IncludesAny(m, {"phd", "doctoral", "doctorate"}) THEN "PhD student"
             ELSE IF IncludesAny(m, {"grad student", "graduate student", "masters student"})
                  THEN "graduate student"
             ELSE ""
        ELSE ""
      purpose ==
        IF c.purpose = ""
        THEN IF IncludesAny(m, {"thesis", "dissertation"}) THEN "thesis"
             ELSE IF IncludesAny(m, {"paper", "publication", "publish"}) THEN "research paper"
             ELSE IF IncludesAny(m, {"class", "course", "assignment", "homework"})
                  THEN "class assignment"
             ELSE IF IncludesAny(m, {"curious", "curiosity", "interest", "learning", "explore"})
                  THEN "personal curiosity"
             ELSE ""
        ELSE ""
      focus ==
        IF c.focus_area = "" /\ WordCount(m) > 6 /\ d.topic # "" THEN m ELSE ""
  IN IF level # "" \/ purpose # "" \/ focus # ""
     THEN patch(d,
            [ clarifications |->
                [ academic_level |-> IF level # "" THEN level ELSE c.academic_level,
                  purpose |-> IF purpose # "" THEN purpose ELSE c.purpose,
                  focus_area |-> IF focus # "" THEN focus ELSE c.focus_area ] ], t)
     ELSE d

\* The part of a handler that runs before its first await: the draft it leaves,
\* the branch taken, the call it now awaits ("none": it has returned `response`),
\* and whether it started a gather run.
Handled(d, route, await, response, starts) ==
  [draft |-> d, route |-> route, await |-> await, response |-> response, starts |-> starts]

\* handleClarification as it would be if a message that mentions a plan
\* triggered plan generation.
handleClarificationByKeyword(d, m, t) ==
  IF m = Sentinel \/ Includes(m, "plan")
  THEN IF d.topic = ""
       THEN Handled(d, "askTopic", "none", AskTopicText, FALSE)
       ELSE Handled(patch(d, [phase |-> "planning"], t), "plan", "planLLM", "", FALSE)
  ELSE LET d1 == IF d.topic = "" THEN patch(d, [topic |-> m], t) ELSE d
       IN Handled(extractFactsFromMessage(d1, m, t), "clarify", "clarLLM", "", FALSE)

\* handleClarification as it would be if the sentinel started planning without
\* a topic.
handleClarificationWithoutTopic(d, m, t) ==
  IF m = Sentinel
  THEN Handled(patch(d, [phase |-> "planning"], t), "plan", "planLLM", "", FALSE)
  ELSE LET d1 == IF d.topic = "" THEN patch(d, [topic |-> m], t) ELSE d
       IN Handled(extractFactsFromMessage(d1, m, t), "clarify", "clarLLM", "", FALSE)

\* handleClarification as it would be if every message were stored as the topic.
handleClarificationRetopic(d, m, t) ==
  IF m = Sentinel
  THEN IF d.topic = ""
       THEN Handled(d, "askTopic", "none", AskTopicText, FALSE)
       ELSE Handled(patch(d, [phase |-> "planning"], t), "plan", "planLLM", "", FALSE)
  ELSE LET d1 == patch(d, [topic |-> m], t)
       IN Handled(extractFactsFromMessage(d1, m, t), "clarify", "clarLLM", "", FALSE)

handleClarification(d, m, t) ==
  IF m = Sentinel
  THEN IF d.topic = ""
       THEN Handled(d, "askTopic", "none", AskTopicText, FALSE)
       ELSE Handled(patch(d, [phase |-> "planning"], t), "plan", "planLLM", "", FALSE)
  ELSE LET d1 == IF d.topic = "" THEN patch(d, [topic |-> m], t) ELSE d
       IN Handled(extractFactsFromMessage(d1, m, t), "clarify", "clarLLM", "", FALSE)

\* The transcript handleClarification gives the model: one "You asked ... User
\* answered ..." pair for each entry of the result.
Pair(asked, answered) == [asked |-> asked, answered |-> answered]

\* for (let i = 1; i < history.length - 1; i += 2) with its role test, indices
\* counted from 1 here.
qaPairs(history) ==
  LET I == { i \in 1..(Len(history) - 1) :
               /\ i % 2 = 0
               /\ history[i].role = "assistant" /\ history[i + 1].role = "user" }
      nth(k) == CHOOSE i \in I : Cardinality({j \in I : j < i}) = k - 1
  IN [k \in 1..Cardinality(I) |-> Pair(history[nth(k)].content, history[nth(k) + 1].content)]

\* [...history].reverse().find(m => m.role === 'assistant'), as a sequence of
\* at most one entry.
lastAssistantMsg(history) ==
  LET A == {i \in 1..Len(history) : history[i].role = "assistant"}
  IN IF A = {} THEN <<>> ELSE <<history[CHOOSE i \in A : \A j \in A : j <= i]>>

allPairs(history, m) ==
  LET last == lastAssistantMsg(history)
  IN IF last = <<>> THEN qaPairs(history)
     ELSE Append(qaPairs(history), Pair(last[1].content, m))

\* ------------------------------------------------------ phase 5: ongoing
buildPapersList(d) == IF Len(d.sources) = 0 THEN NoPapersText ELSE PapersListText

\* The paper entries of that listing: s.sources.slice(0, 10).forEach(...)
listingEntries(d) ==
  IF Len(d.sources) < ListLimit THEN Len(d.sources) ELSE ListLimit

\* handleOngoing as it would be if the more-sources triggers were tested first.
handleOngoingMoreFirst(d, s, m) ==
  IF IncludesAny(m, MoreTriggers)
  THEN Handled(d, "more", "none", MoreAckText, d.plan # null \/ s.plan # null)
  ELSE IF IncludesAny(m, ProgressTriggers)
  THEN Handled(d, "progress", "none", ProgressText, FALSE)
  ELSE IF IncludesAny(m, ListTriggers)
  THEN Handled(d, "list", "none", buildPapersList(d), FALSE)
  ELSE Handled(d, "qa", "ongoingLLM", "", FALSE)

\* handleOngoing as it would be if a more-sources message were acknowledged
\* without a gather run being started.
handleOngoingWithoutRun(d, s, m) ==
  IF IncludesAny(m, ProgressTriggers)
  THEN Handled(d, "progress", "none", ProgressText, FALSE)
  ELSE IF IncludesAny(m, ListTriggers)
  THEN Handled(d, "list", "none", buildPapersList(d), FALSE)
  ELSE IF IncludesAny(m, MoreTriggers)
  THEN Handled(d, "more", "none", MoreAckText, FALSE)
  ELSE Handled(d, "qa", "ongoingLLM", "", FALSE)

handleOngoing(d, s, m) ==
  IF IncludesAny(m, ProgressTriggers)
  THEN Handled(d, "progress", "none", ProgressText, FALSE)
  ELSE IF IncludesAny(m, ListTriggers)
  THEN Handled(d, "list", "none", buildPapersList(d), FALSE)
  ELSE IF IncludesAny(m, MoreTriggers)
  THEN Handled(d, "more", "none", MoreAckText, d.plan # null \/ s.plan # null)
  ELSE Handled(d, "qa", "ongoingLLM", "", FALSE)

\* ------------------------------------------------ onRequest, step 4: dispatch
\* The dispatch as it would be if the sentinel started plan generation in every
\* phase.
DispatchReplanning(d, s, m, t) ==
  CASE d.phase = "clarification" -> handleClarification(d, m, t)
    [] m = Sentinel \/ d.phase = "planning" ->
         Handled(patch(d, [phase |-> "planning"], t), "plan", "planLLM", "", FALSE)
    [] d.phase \in {"gathering", "summarizing"} ->
         IF Len(d.sources) > 0 /\ DOMAIN d.paperInsights # {}
         THEN LET h == handleOngoing(patch(d, [phase |-> "ongoing"], t), s, m)
              IN [h EXCEPT !.route = "auto-" \o h.route]
         ELSE Handled(d, "still", "none", StillGatheringText, FALSE)
    [] OTHER -> handleOngoing(d, s, m)

Dispatch(d, s, m, t) ==
  CASE d.phase = "clarification" -> handleClarification(d, m, t)
    [] d.phase = "planning" -> Handled(d, "plan", "planLLM", "", FALSE)
    [] d.phase \in {"gathering", "summarizing"} ->
         IF Len(d.sources) > 0 /\ DOMAIN d.paperInsights # {}
         THEN LET h == handleOngoing(patch(d, [phase |-> "ongoing"], t), s, m)
              IN [h EXCEPT !.route = "auto-" \o h.route]
         ELSE Handled(d, "still", "none", StillGatheringText, FALSE)
    [] OTHER -> handleOngoing(d, s, m)

\* ------------------------------------------- onRequest, steps 5 and 6
historyUserMsg(m) == IF m = Sentinel THEN PlanLabel ELSE m

\* The re-sync as it would be if it did not test the draft's phase.
ResyncKeepingPlanning(d, s) ==
  IF s.phase = "ongoing" \/ s.phase = "summarizing"
  THEN initDraft(s)
  ELSE d

Resync(d, s) ==
  IF d.phase = "planning" \/ s.phase = "ongoing" \/ s.phase = "summarizing"
  THEN initDraft(s)
  ELSE d

\* Step 5 as it would be if the exchange were staged before the re-sync.
StagePendingBeforeResync(d, s, m, response, t) ==
  Resync(
    patch(d, [pendingUserMsg |-> historyUserMsg(m), pendingAssistantMsg |-> response], t),
    s)

StagePending(d, s, m, response, t) ==
  patch(Resync(d, s),
    [pendingUserMsg |-> historyUserMsg(m), pendingAssistantMsg |-> response], t)

\* ------------------------------------------------ phase 2: plan generation
\* The text the model returns to generatePlan, by its shape and by the number of
\* truthy entries of each array of the JSON object it holds (0: empty or missing).
PlanText3(shape, nSub, nKw, nOut) ==
  [shape |-> shape, subtopics |-> nSub, keywords |-> nKw, outline |-> nOut]

PlanTexts ==
  { PlanText3("json", 2, 2, 1), PlanText3("prose_json", 2, 2, 1),
    PlanText3("fenced_json", 2, 2, 1), PlanText3("json", 0, 2, 1),
    PlanText3("json", 2, 0, 1), PlanText3("prose", 0, 0, 0) }

PlanOutcomes ==
  {[threw |-> TRUE, text |-> PlanText3("prose", 0, 0, 0)]}
    \cup {[threw |-> FALSE, text |-> x] : x \in PlanTexts}

\* Strategy 1: JSON.parse(raw.trim())
ParseDirect(raw) == raw.shape = "json"
\* Strategy 2: the span from the first { to the last }
ParseBraces(raw) == raw.shape \in {"json", "prose_json", "fenced_json"}
\* Strategy 3: the text without its code fences
ParseUnfenced(raw) == raw.shape \in {"json", "fenced_json"}

fallbackPlan(t) ==
  [subtopics |-> Items(6), keywords |-> Items(8), outline |-> Items(7), createdAt |-> t]

\* generatePlan as it would be if it accepted whatever object it parsed.
generatePlanUnvalidated(raw, t) ==
  LET parsed == ParseDirect(raw) \/ ParseBraces(raw) \/ ParseUnfenced(raw)
  IN IF parsed
     THEN [ subtopics |-> Items(raw.subtopics), keywords |-> Items(raw.keywords),
            outline |-> Items(raw.outline), createdAt |-> t ]
     ELSE fallbackPlan(t)

\* generatePlan after its callLLM returned `raw` (a throw of callLLM is not caught here).
generatePlan(raw, t) ==
  LET parsed == ParseDirect(raw) \/ ParseBraces(raw) \/ ParseUnfenced(raw)
  IN IF parsed /\ raw.subtopics > 0 /\ raw.keywords > 0
     THEN [ subtopics |-> Items(raw.subtopics), keywords |-> Items(raw.keywords),
            outline |-> Items(raw.outline), createdAt |-> t ]
     ELSE fallbackPlan(t)

\* ------------------------------------------------------ arXiv search
Min(a, b) == IF a < b THEN a ELSE b

SeqsUpTo(S, n) == UNION {[1..k -> S] : k \in 0..n}

\* ------------------------------------------------------ arXiv search
\* The words the queries of SpecQuery are made of; a query is the sequence of
\* its whitespace-delimited terms.
Words == {"graph", "traffic", "with", "Using", "for", "AI", "law"}

\* t.length
WordLength(t) ==
  CASE t = "graph" -> 5
    [] t = "traffic" -> 7
    [] t = "with" -> 4
    [] t = "Using" -> 5
    [] t = "for" -> 3
    [] t = "AI" -> 2
    [] t = "law" -> 3

\* t.toLowerCase()
toLowerCase(t) ==
  CASE t = "Using" -> "using"
    [] t = "AI" -> "ai"
    [] OTHER -> t

stopwords ==
  { "for", "the", "and", "using", "with", "from", "into", "that", "this", "are",
    "can", "per", "via" }

\* query.trim().split(/\s+/).filter(t => t.length > 3 && !stopwords.has(t.toLowerCase()))
terms(query) ==
  LET kept(t) == WordLength(t) > 3 /\ toLowerCase(t) \notin stopwords
  IN SelectSeq(query, kept)

\* The search expression, as the sequence of its all: operands joined by +AND+,
\* each operand the words it holds.
searchExpr(query) ==
  IF Len(terms(query)) > 1
  THEN [i \in 1..Len(terms(query)) |-> <<terms(query)[i]>>]
  ELSE <<query>>

\* An entry of a feed: the id of its paper, or 0 when it lacks an id or a title.
FeedEntries == PaperIds \cup {0}

\* What one searchArxiv call can meet: a failed fetch, a non-success status, a
\* failure while reading the body, or a feed of entries (none in a malformed feed).
SearchOutcomes ==
  [kind : {"fetch_error", "http_error", "body_error"}, feed : {<<>>}]
    \cup [kind : {"ok"}, feed : SeqsUpTo(FeedEntries, MaxFound)]

\* if (id && title) papers.push(...)
parseArxivAtom(feed) ==
  LET hasIdAndTitle(e) == e # 0
  IN SelectSeq(feed, hasIdAndTitle)

searchArxiv(outcome) ==
  CASE outcome.kind = "fetch_error" -> [threw |-> FALSE, papers |-> <<>>]
    [] outcome.kind = "http_error" -> [threw |-> FALSE, papers |-> <<>>]
    [] outcome.kind = "body_error" -> [threw |-> TRUE, papers |-> <<>>]
    [] OTHER -> [threw |-> FALSE, papers |-> parseArxivAtom(outcome.feed)]

\* ------------------------------------------- phases 3 and 4: gather, analyse
\* The filter as it would be if it let every paper through.
DedupNone(papers, seen) == papers

\* The filter as it would be if it returned the distinct ids in ascending order.
DedupSorted(papers, seen) ==
  LET S == {papers[i] : i \in 1..Len(papers)} \ seen
  IN [k \in 1..Cardinality(S) |-> CHOOSE x \in S : Cardinality({y \in S : y < x}) = k - 1]

RECURSIVE Dedup(_, _)
\* allPapers.filter(p => !seen.has(p.id) && seen.add(p.id))
Dedup(papers, seen) ==
  IF papers = <<>> THEN <<>>
  ELSE IF Head(papers) \in seen THEN Dedup(Tail(papers), seen)
  ELSE <<Head(papers)>> \o Dedup(Tail(papers), seen \cup {Head(papers)})

EmptyInsight == [relevanceSummary |-> "", keyFindings |-> "", researchImpact |-> ""]
FullInsight == [relevanceSummary |-> "why", keyFindings |-> "what", researchImpact |-> "how"]

\* What one analyzePaper can meet: the model call throws, the reply holds no JSON
\* object, or it holds one with the three fields.
AnalysisOutcomes == {"llm_error", "no_json", "json"}

analyzePaper(outcome) == IF outcome = "json" THEN FullInsight ELSE EmptyInsight

Put(f, k, v) == [x \in DOMAIN f \cup {k} |-> IF x = k THEN v ELSE f[x]]

\* The insights a run's local record would start from if it started empty.
insightsFromScratch(d) == <<>>

\* const paperInsights = { ...this.draft.paperInsights }
copyInsights(d) == d.paperInsights

\* this.patch({ phase: 'ongoing' }) at the end of a run, as it would be if the run
\* ended without it.
completeRunSilently(d, t) == d

\* this.patch({ phase: 'ongoing' }) at the end of a run
completeRun(d, t) == patch(d, [phase |-> "ongoing"], t)

\* caught: the search of the previous keyword ended in the catch of the loop.
IdleGather ==
  [ pc |-> "idle", bg |-> FALSE, keywords |-> <<>>, k |-> 0, caught |-> FALSE,
    allPapers |-> <<>>, sources |-> <<>>, paperInsights |-> <<>>, i |-> 0 ]

\* gatherAndAnalyzeSources as it would be if it searched every keyword of the plan.
GatherStartEveryKeyword(plan, bg) ==
  [ IdleGather EXCEPT !.pc = "search", !.bg = bg, !.keywords = plan.keywords, !.k = 1 ]

\* gatherAndAnalyzeSources up to its first await: the first search is in flight.
GatherStart(plan, bg) ==
  [ IdleGather EXCEPT
      !.pc = "search", !.bg = bg,
      !.keywords = SubSeq(plan.keywords, 1, Min(SearchKeywordLimit, Len(plan.keywords))),
      !.k = 1 ]

\* The run has returned; its record keeps the paperInsights object it wrote last.
GatherDone(run) ==
  [IdleGather EXCEPT !.pc = "done", !.bg = run.bg, !.paperInsights = run.paperInsights]

\* ------------------------------------------------------------ requests
NoReply == [status |-> 0, message |-> "", phase |-> "none", sourceCount |-> 0]

IdleReq ==
  [ pc |-> "idle",          \* idle, clarLLM, planLLM, gather, ongoingLLM, kv, done
    msg |-> "",             \* userMessage
    route |-> "none",       \* the branch of the dispatch the turn took
    response |-> "",        \* response
    base |-> initialState,  \* this.state when the turn arrived
    history |-> <<>>,       \* draft.chatHistory as the handler read it
    bgAtStart |-> FALSE,    \* a gather run was in flight when the turn arrived
    writes |-> 0,           \* setState calls since the turn arrived
    listed |-> 0,           \* paper entries of the listing the turn built
    run |-> 0,              \* the gather run the turn awaits
    reply |-> NoReply ]     \* the body of the Response

Running(run) == run.pc \in {"search", "analyze"}
InFlight(r) == r.pc \notin {"idle", "done"}

FreeGather == CHOOSE g \in Gathers :
  /\ ~Running(gather[g])
  /\ \A h \in Gathers : h < g => Running(gather[h])

\* The request record an arriving chat request takes: the lowest one not in use.
FreeReq == CHOOSE r \in Reqs :
  /\ ~InFlight(req[r])
  /\ \A q \in Reqs : q < r => InFlight(req[q])

CountWrites(rq, n) ==
  [r \in Reqs |-> IF InFlight(rq[r]) THEN [rq[r] EXCEPT !.writes = @ + n] ELSE rq[r]]

Exchange(m, response) == [user |-> historyUserMsg(m), assistant |-> response]

Init ==
  /\ state = initialState
  /\ draft = initialState
  /\ req = [r \in Reqs |-> IdleReq]
  /\ gather = [g \in Gathers |-> IdleGather]
  /\ now = 0
  /\ log = <<>>

\* Steps 5 and 6 as they would be if the staged exchange were persisted by a
\* setState of its own before the flush.
CompleteWritingTwice(r, response) ==
  LET d == StagePending(draft, state, req[r].msg, response, now)
  IN /\ state' = flush(d)
     /\ draft' = d
     /\ req' = [CountWrites(req, 2) EXCEPT ![r].pc = "kv", ![r].response = response]
     /\ log' = Append(log, Exchange(req[r].msg, response))

\* onRequest, steps 5 and 6, for the turn of request r whose handler returned.
Complete(r, response) ==
  LET d == StagePending(draft, state, req[r].msg, response, now)
  IN /\ state' = flush(d)
     /\ draft' = d
     /\ req' = [CountWrites(req, 1) EXCEPT ![r].pc = "kv", ![r].response = response]
     /\ log' = Append(log, Exchange(req[r].msg, response))

\* onRequest from the arrival of a chat message to the handler's first await, or,
\* when the handler awaits nothing, to the flush; `last` bounds the turns taken.
TurnArrives(r, m, last) ==
  /\ now < last
  /\ \E q \in Reqs : ~InFlight(req[q])
  /\ r = FreeReq
  /\ LET t == now + 1
         d1 == commitPending(initDraft(state), t)
         d2 == IF d1.workspaceId = "" /\ BodyWorkspaceId # ""
               THEN patch(d1, [workspaceId |-> BodyWorkspaceId], t)
               ELSE d1
         h == Dispatch(d2, state, m, t)
         plan == IF h.draft.plan # null THEN h.draft.plan ELSE state.plan
         r0 == [ IdleReq EXCEPT
                   !.msg = m, !.route = h.route, !.base = state,
                   !.history = h.draft.chatHistory,
                   !.listed = IF h.route \in {"list", "auto-list"}
                              THEN listingEntries(h.draft) ELSE 0,
                   !.bgAtStart = \E g \in Gathers : Running(gather[g]) ]
     IN /\ now' = t
        /\ h.starts => \E g \in Gathers : ~Running(gather[g])
        /\ gather' = IF h.starts
                     THEN [gather EXCEPT ![FreeGather] = GatherStart(plan, TRUE)]
                     ELSE gather
        /\ IF h.await = "none"
           THEN LET d3 == StagePending(h.draft, state, m, h.response, t)
                IN /\ state' = flush(d3)
                   /\ draft' = d3
                   /\ req' = [CountWrites(req, 1) EXCEPT ![r] =
                        [r0 EXCEPT !.pc = "kv", !.response = h.response, !.writes = 1]]
                   /\ log' = Append(log, Exchange(m, h.response))
           ELSE /\ draft' = h.draft
                /\ req' = [req EXCEPT ![r] = [r0 EXCEPT !.pc = h.await]]
                /\ UNCHANGED <<state, log>>

Arrive(r, m) == TurnArrives(r, m, MaxTurns)

\* A chat turn that arrives while no other is in flight.
BeginTurn(r, m) ==
  /\ \A q \in Reqs : ~InFlight(req[q])
  /\ Arrive(r, m)

\* handleClarification resumes from its callLLM.
ClarLLMReturn(r, out) ==
  /\ req[r].pc = "clarLLM"
  /\ Complete(r, IF out.threw THEN ErrorText ELSE cleanOutput(out.text))
  /\ UNCHANGED <<gather, now>>

\* handleOngoing resumes from its callLLM.
OngoingLLMReturn(r, out) ==
  /\ req[r].pc = "ongoingLLM"
  /\ Complete(r, IF out.threw THEN ErrorText ELSE out.text)
  /\ UNCHANGED <<gather, now>>

\* handlePlanning as it would be if it started gatherAndAnalyzeSources without
\* awaiting it and returned the plan text at once.
PlanLLMReturnDetached(r, out) ==
  /\ req[r].pc = "planLLM"
  /\ IF out.threw
     THEN Complete(r, ErrorText) /\ UNCHANGED gather
     ELSE LET d == patch(draft, [plan |-> generatePlan(out.text, now), phase |-> "gathering"], now)
              d3 == StagePending(d, state, req[r].msg, PlanText, now)
          IN /\ \E g \in Gathers : ~Running(gather[g])
             /\ state' = flush(d3)
             /\ draft' = d3
             /\ gather' = [gather EXCEPT ![FreeGather] = GatherStart(d.plan, TRUE)]
             /\ req' = [CountWrites(req, 1) EXCEPT
                  ![r].pc = "kv", ![r].response = PlanText, ![r].run = FreeGather]
             /\ log' = Append(log, Exchange(req[r].msg, PlanText))
  /\ UNCHANGED now

\* generatePlan resumes from its callLLM; handlePlanning goes on to the first
\* search of gatherAndAnalyzeSources.
PlanLLMReturn(r, out) ==
  /\ req[r].pc = "planLLM"
  /\ IF out.threw
     THEN Complete(r, ErrorText) /\ UNCHANGED gather
     ELSE LET d == patch(draft, [plan |-> generatePlan(out.text, now), phase |-> "gathering"], now)
          IN /\ \E g \in Gathers : ~Running(gather[g])
             /\ draft' = d
             /\ gather' = [gather EXCEPT ![FreeGather] = GatherStart(d.plan, FALSE)]
             /\ req' = [req EXCEPT ![r].pc = "gather", ![r].run = FreeGather]
             /\ UNCHANGED <<state, log>>
  /\ UNCHANGED now

\* gatherAndAnalyzeSources resumes from the search of keyword k.
SearchReturn(g, outcome) ==
  LET run == gather[g]
      found == searchArxiv(outcome)
      allPapers == IF found.threw THEN run.allPapers ELSE run.allPapers \o found.papers
  IN /\ run.pc = "search"
     /\ IF run.k < Len(run.keywords)
        THEN /\ gather' = [gather EXCEPT
                  ![g].k = @ + 1, ![g].allPapers = allPapers, ![g].caught = found.threw]
             /\ UNCHANGED <<state, draft, req>>
        ELSE LET sources == Dedup(allPapers, {})
                 d1 == patch(draft, [sources |-> sources, phase |-> "summarizing"], now)
                 d2 == completeRun(d1, now)
             IN IF sources = <<>>
                THEN /\ state' = d2
                     /\ draft' = d2
                     /\ gather' = [gather EXCEPT ![g] = GatherDone(run)]
                     /\ req' = CountWrites(req, 2)
                ELSE /\ state' = d1
                     /\ draft' = d1
                     /\ gather' = [gather EXCEPT ![g] =
                          [ run EXCEPT !.pc = "analyze", !.caught = FALSE,
                              !.allPapers = allPapers,
                              !.sources = sources, !.paperInsights = copyInsights(d1),
                              !.i = 1 ]]
                     /\ req' = CountWrites(req, 1)
     /\ UNCHANGED <<now, log>>

\* The analysis loop as it would be if it persisted nothing until its end.
AnalyzeReturnUnsaved(g, outcome) ==
  LET run == gather[g]
      paperInsights == Put(run.paperInsights, run.sources[run.i], analyzePaper(outcome))
      d1 == patch(draft, [paperInsights |-> paperInsights], now)
      d2 == completeRun(d1, now)
  IN /\ run.pc = "analyze"
     /\ IF run.i < Min(AnalyzeLimit, Len(run.sources))
        THEN /\ draft' = d1
             /\ gather' = [gather EXCEPT ![g].i = @ + 1, ![g].paperInsights = paperInsights]
             /\ UNCHANGED <<state, req>>
        ELSE /\ state' = d2
             /\ draft' = d2
             /\ gather' = [gather EXCEPT ![g] = GatherDone([run EXCEPT !.paperInsights = paperInsights])]
             /\ req' = CountWrites(req, 1)
     /\ UNCHANGED <<now, log>>

\* gatherAndAnalyzeSources resumes from the analysis of source i.
AnalyzeReturn(g, outcome) ==
  LET run == gather[g]
      paperInsights == Put(run.paperInsights, run.sources[run.i], analyzePaper(outcome))
      d1 == patch(draft, [paperInsights |-> paperInsights], now)
      d2 == completeRun(d1, now)
  IN /\ run.pc = "analyze"
     /\ IF run.i < Min(AnalyzeLimit, Len(run.sources))
        THEN /\ state' = d1
             /\ draft' = d1
             /\ gather' = [gather EXCEPT ![g].i = @ + 1, ![g].paperInsights = paperInsights]
             /\ req' = CountWrites(req, 1)
        ELSE /\ state' = d2
             /\ draft' = d2
             /\ gather' = [gather EXCEPT ![g] =
                  GatherDone([run EXCEPT !.paperInsights = paperInsights])]
             /\ req' = CountWrites(req, 2)
     /\ UNCHANGED <<now, log>>

\* handlePlanning resumes from gatherAndAnalyzeSources and returns the plan text.
PlanTurnResume(r) ==
  /\ req[r].pc = "gather"
  /\ gather[req[r].run].pc = "done"
  /\ Complete(r, PlanText)
  /\ UNCHANGED <<gather, now>>

\* A chat request whose body holds no message: body.message.trim() throws before
\* the draft is touched, and the worker entry answers with its catch.
MissingMessage(r) ==
  /\ \A q \in Reqs : ~InFlight(req[q])
  /\ r = FreeReq
  /\ req' = [req EXCEPT ![r] =
       [ IdleReq EXCEPT
           !.pc = "done", !.route = "noMessage",
           !.reply = [NoReply EXCEPT !.status = 500, !.message = TypeErrorText] ]]
  /\ UNCHANGED <<state, draft, gather, now, log>>

\* The object is interrupted (evicted or restarted) while work is in flight: the
\* requests and gather runs in flight are gone, this.state survives, and the new
\* instance's draft is this.state.
Interrupt ==
  /\ \/ \E r \in Reqs : InFlight(req[r])
     \/ \E g \in Gathers : Running(gather[g])
  /\ req' = [r \in Reqs |-> IdleReq]
  /\ gather' = [g \in Gathers |-> IdleGather]
  /\ draft' = state
  /\ UNCHANGED <<state, now, log>>

\* onRequest resumes from the KV index write and builds the Response.
Respond(r) ==
  /\ req[r].pc = "kv"
  /\ req' = [req EXCEPT ![r] =
       [ IdleReq EXCEPT
           !.pc = "done", !.route = req[r].route, !.writes = req[r].writes,
           !.bgAtStart = req[r].bgAtStart, !.run = req[r].run,
           !.reply = [ status |-> 200, message |-> req[r].response,
                       phase |-> draft.phase, sourceCount |-> Len(draft.sources) ] ]]
  /\ UNCHANGED <<state, draft, gather, now, log>>

Next ==
  \/ \E r \in Reqs, m \in Messages : BeginTurn(r, m)
  \/ \E r \in Reqs, out \in LLMOutcomes : ClarLLMReturn(r, out)
  \/ \E r \in Reqs, out \in LLMOutcomes : OngoingLLMReturn(r, out)
  \/ \E r \in Reqs, out \in PlanOutcomes : PlanLLMReturn(r, out)
  \/ \E r \in Reqs : PlanTurnResume(r)
  \/ \E r \in Reqs : Respond(r)
  \/ \E r \in Reqs : MissingMessage(r)
  \/ Interrupt
  \/ \E g \in Gathers, outcome \in SearchOutcomes :
       /\ Len(gather[g].allPapers) + Len(outcome.feed) <= MaxFound
       /\ SearchReturn(g, outcome)
  \/ \E g \in Gathers, outcome \in AnalysisOutcomes : AnalyzeReturn(g, outcome)

Spec == Init /\ [][Next]_vars

\* ------------------------------------------------ external calls that return
\* The search run g awaits returns: the fetch is bounded by its 15 s timeout.
SearchOf(g) ==
  \E outcome \in SearchOutcomes :
    /\ Len(gather[g].allPapers) + Len(outcome.feed) <= MaxFound
    /\ SearchReturn(g, outcome)

\* The analysis run g awaits returns: the model call answers or throws.
AnalysisOf(g) == \E outcome \in AnalysisOutcomes : AnalyzeReturn(g, outcome)

SpecLive ==
  /\ Init /\ [][Next]_vars
  /\ \A g \in Gathers : WF_vars(SearchOf(g)) /\ WF_vars(AnalysisOf(g))

\* ------------------------------------------------------ overlapping turns
\* The message bodies of the turns that may overlap.
OverlapMessages == {"traffic forecasting plan", Sentinel}

\* As Next, with a chat turn free to arrive while another awaits an external
\* call, and nothing interrupted.
NextOverlap ==
  \/ \E r \in Reqs, m \in OverlapMessages : Arrive(r, m)
  \/ \E r \in Reqs, out \in LLMOutcomes : ClarLLMReturn(r, out)
  \/ \E r \in Reqs, out \in LLMOutcomes : OngoingLLMReturn(r, out)
  \/ \E r \in Reqs, out \in PlanOutcomes : PlanLLMReturn(r, out)
  \/ \E r \in Reqs : PlanTurnResume(r)
  \/ \E r \in Reqs : Respond(r)
  \/ \E g \in Gathers : SearchOf(g)
  \/ \E g \in Gathers : AnalysisOf(g)

SpecOverlap == Init /\ [][NextOverlap]_vars

\* ------------------------------------------- messages that state facts
\* The message bodies of the turns that state an academic level, a purpose and
\* a focus.
FactMessages ==
  { "traffic forecasting plan", Sentinel,
    "phd thesis on graph networks for city traffic",
    "undergrad course assignment about queueing at busy road junctions" }

\* As Next with those messages, one turn at a time and nothing interrupted.
NextFacts ==
  \/ \E r \in Reqs, m \in FactMessages : BeginTurn(r, m)
  \/ \E r \in Reqs, out \in LLMOutcomes : ClarLLMReturn(r, out)
  \/ \E r \in Reqs, out \in LLMOutcomes : OngoingLLMReturn(r, out)
  \/ \E r \in Reqs, out \in PlanOutcomes : PlanLLMReturn(r, out)
  \/ \E r \in Reqs : PlanTurnResume(r)
  \/ \E r \in Reqs : Respond(r)
  \/ \E g \in Gathers : SearchOf(g)
  \/ \E g \in Gathers : AnalysisOf(g)

SpecFacts == Init /\ [][NextFacts]_vars

\* ------------------------------------------- a gather run with full result pages
\* The persisted state after a first clarification turn.
AfterTopicTurn ==
  patch(initialState,
    [ workspaceId |-> BodyWorkspaceId, topic |-> "traffic forecasting plan",
      pendingUserMsg |-> "traffic forecasting plan",
      pendingAssistantMsg |-> "Which dataset?" ], 1)

\* The draft of the sentinel turn that follows, once generatePlan has returned
\* the fallback plan.
PlanTurnDraft ==
  LET d1 == commitPending(initDraft(AfterTopicTurn), 2)
      h == handleClarification(d1, Sentinel, 2)
  IN patch(h.draft,
       [plan |-> generatePlan(PlanText3("prose", 0, 0, 0), 2), phase |-> "gathering"], 2)

\* That turn, awaiting the first search of its gather run.
InitWide ==
  /\ state = AfterTopicTurn
  /\ draft = PlanTurnDraft
  /\ req = [r \in Reqs |->
       IF r = 1
       THEN [ IdleReq EXCEPT
                !.pc = "gather", !.msg = Sentinel, !.route = "plan",
                !.base = AfterTopicTurn,
                !.history = commitPending(initDraft(AfterTopicTurn), 2).chatHistory,
                !.run = 1 ]
       ELSE IdleReq]
  /\ gather = [g \in Gathers |->
       IF g = 1 THEN GatherStart(PlanTurnDraft.plan, FALSE) ELSE IdleGather]
  /\ now = 2
  /\ log = <<Exchange("traffic forecasting plan", "Which dataset?")>>

\* What the search of keyword k returns here: nothing, or a full page of papers
\* no other keyword finds.
WideSearchOutcomes(k) ==
  {[kind |-> "http_error", feed |-> <<>>]}
    \cup {[kind |-> "ok", feed |-> [i \in 1..n |-> (k - 1) * ResultsPerSearch + i]] :
            n \in {0, ResultsPerSearch}}

NextWide ==
  \/ \E g \in Gathers : \E outcome \in WideSearchOutcomes(gather[g].k) :
       SearchReturn(g, outcome)
  \/ \E g \in Gathers, outcome \in AnalysisOutcomes : AnalyzeReturn(g, outcome)
  \/ \E r \in Reqs : PlanTurnResume(r)
  \/ \E r \in Reqs : Respond(r)
  \/ \E r \in Reqs : BeginTurn(r, "show sources")

SpecWide == InitWide /\ [][NextWide]_vars

\* ------------------------------------------- the queries of a gather run
MaxQueryWords == 3

Queries == UNION {[1..n -> Words] : n \in 1..MaxQueryWords}

\* The draft of a plan turn whose plan holds the one keyword q.
QueryTurnDraft(q) ==
  patch(PlanTurnDraft, [plan |-> [PlanTurnDraft.plan EXCEPT !.keywords = <<q>>]], 2)

\* That turn, its gather run awaiting the search of the keyword.
InitQuery ==
  \E q \in Queries :
    /\ state = AfterTopicTurn
    /\ draft = QueryTurnDraft(q)
    /\ req = [r \in Reqs |->
         IF r = 1
         THEN [ IdleReq EXCEPT
                  !.pc = "gather", !.msg = Sentinel, !.route = "plan",
                  !.base = AfterTopicTurn,
                  !.history = commitPending(initDraft(AfterTopicTurn), 2).chatHistory,
                  !.run = 1 ]
         ELSE IdleReq]
    /\ gather = [g \in Gathers |->
         IF g = 1 THEN GatherStart(QueryTurnDraft(q).plan, FALSE) ELSE IdleGather]
    /\ now = 2
    /\ log = <<Exchange("traffic forecasting plan", "Which dataset?")>>

NextQuery ==
  \/ \E g \in Gathers : SearchOf(g)
  \/ \E g \in Gathers : AnalysisOf(g)
  \/ \E r \in Reqs : PlanTurnResume(r)
  \/ \E r \in Reqs : Respond(r)

SpecQuery == InitQuery /\ [][NextQuery]_vars

\* ------------------------------------------- turns of the ongoing phase
MaxOngoingTurns == 2

\* The exchanges of a first clarification turn and of the plan turn after it.
OngoingLog ==
  << Exchange("traffic forecasting plan", "Which dataset?"), Exchange(Sentinel, PlanText) >>

\* The persisted state once that plan turn has completed: the plan had two
\* keywords, the gather run found paper 1 and analysed it.
AfterPlanTurn ==
  LET d1 == commitPending(initDraft(AfterTopicTurn), 2)
      h == handleClarification(d1, Sentinel, 2)
      d2 == patch(h.draft,
              [plan |-> generatePlan(PlanText3("json", 2, 2, 1), 2), phase |-> "gathering"], 2)
      d3 == patch(d2, [sources |-> <<1>>, phase |-> "summarizing"], 2)
      d4 == patch(d3,
              [paperInsights |-> Put(copyInsights(d3), 1, analyzePaper("json"))], 2)
      d5 == completeRun(d4, 2)
  IN flush(StagePending(d5, d5, Sentinel, PlanText, 2))

\* The plan turn has answered and its gather run has ended.
InitOngoing ==
  /\ state = AfterPlanTurn
  /\ draft = AfterPlanTurn
  /\ req = [r \in Reqs |->
       IF r = 1
       THEN [ IdleReq EXCEPT
                !.pc = "done", !.route = "plan", !.run = 1, !.writes = 4,
                !.reply = [ status |-> 200, message |-> PlanText,
                            phase |-> "ongoing", sourceCount |-> 1 ] ]
       ELSE IdleReq]
  /\ gather = [g \in Gathers |->
       IF g = 1
       THEN GatherDone([IdleGather EXCEPT !.paperInsights = AfterPlanTurn.paperInsights])
       ELSE IdleGather]
  /\ now = Len(OngoingLog)
  /\ log = OngoingLog

\* The message bodies of the turns that follow.
OngoingMessages ==
  { "show sources", "add more sources", "show progress and add more",
    "list papers then find more", "traffic forecasting plan" }

\* A chat turn of the ongoing phase, arriving while no other turn is in flight; a
\* background gather run may be.
OngoingTurn(r, m) ==
  /\ \A q \in Reqs : ~InFlight(req[q])
  /\ TurnArrives(r, m, Len(OngoingLog) + MaxOngoingTurns)

NextOngoing ==
  \/ \E r \in Reqs, m \in OngoingMessages : OngoingTurn(r, m)
  \/ \E r \in Reqs, out \in LLMOutcomes : OngoingLLMReturn(r, out)
  \/ \E r \in Reqs : Respond(r)
  \/ \E g \in Gathers : SearchOf(g)
  \/ \E g \in Gathers : AnalysisOf(g)

SpecOngoing == InitOngoing /\ [][NextOngoing]_vars

\* ------------------------------------------- turns after an interrupted run
MaxRecoverTurns == 2

\* The persisted state a plan turn leaves when the object is interrupted during
\* its gather run: the run had persisted sources 1 and 2 and, if `analysed`,
\* the insight of paper 1.
InterruptedRun(analysed) ==
  LET d1 == commitPending(initDraft(AfterTopicTurn), 2)
      h == handleClarification(d1, Sentinel, 2)
      d2 == patch(h.draft,
              [plan |-> generatePlan(PlanText3("json", 2, 2, 1), 2), phase |-> "gathering"], 2)
      d3 == patch(d2, [sources |-> <<1, 2>>, phase |-> "summarizing"], 2)
      d4 == patch(d3,
              [paperInsights |-> Put(copyInsights(d3), 1, analyzePaper("json"))], 2)
  IN IF analysed THEN d4 ELSE d3

\* The new instance after that interruption.
InitRecover ==
  /\ state \in {InterruptedRun(FALSE), InterruptedRun(TRUE)}
  /\ draft = state
  /\ req = [r \in Reqs |-> IdleReq]
  /\ gather = [g \in Gathers |-> IdleGather]
  /\ now = 2
  /\ log = <<Exchange("traffic forecasting plan", "Which dataset?")>>

\* A turn asking for more sources, the one message whose handler can start a
\* gather run, arriving while no other turn is in flight.
RecoverTurn(r) ==
  /\ \A q \in Reqs : ~InFlight(req[q])
  /\ TurnArrives(r, "add more sources", 2 + MaxRecoverTurns)

NextRecover ==
  \/ \E r \in Reqs : RecoverTurn(r)
  \/ \E r \in Reqs : Respond(r)
  \/ \E g \in Gathers : SearchOf(g)
  \/ \E g \in Gathers : AnalysisOf(g)

\* The user keeps asking, every request is answered and every external call
\* returns.
SpecRecover ==
  /\ InitRecover /\ [][NextRecover]_vars
  /\ WF_vars(\E r \in Reqs : RecoverTurn(r))
  /\ WF_vars(\E r \in Reqs : Respond(r))
  /\ \A g \in Gathers : WF_vars(SearchOf(g)) /\ WF_vars(AnalysisOf(g))

\* ------------------------------------------------------------- claims
RECURSIVE HistoryOf(_)
\* The chatHistory entries of a sequence of exchanges.
HistoryOf(exchanges) ==
  IF exchanges = <<>> THEN <<>>
  ELSE << [role |-> "user", content |-> Head(exchanges).user],
          [role |-> "assistant", content |-> Head(exchanges).assistant] >>
         \o HistoryOf(Tail(exchanges))

IsPrefix(a, b) == Len(a) <= Len(b) /\ SubSeq(b, 1, Len(a)) = a

NoTurnInFlight == \A r \in Reqs : ~InFlight(req[r])

AwaitsModel(r) == req[r].pc \in {"clarLLM", "planLLM", "ongoingLLM"}

\* C1: once turn N+1 has completed, the persisted chatHistory is exactly the
\* exchanges of turns 1..N in submission order. Stated for the runs in which
\* every exchange has a non-empty message and a non-empty reply and no handler
\* has failed.
C1_HistoryHoldsEarlierTurns ==
  ( /\ Len(log) >= 1
    /\ NoTurnInFlight
    /\ \A i \in 1..Len(log) :
         log[i].user # "" /\ log[i].assistant \notin {"", ErrorText} )
  => state.chatHistory = HistoryOf(SubSeq(log, 1, Len(log) - 1))

\* C2: every durable write leaves the persisted chatHistory as it was or with
\* entries appended at its end.
C2_HistoryAppendOnly == [][IsPrefix(state.chatHistory, state'.chatHistory)]_vars

\* C2 witness: the flushes and a gather run have written, and the history holds
\* two committed exchanges.
C2_Witness ==
  /\ Len(state.chatHistory) >= 4
  /\ state.phase = "ongoing"
  /\ state.pendingUserMsg # ""

\* C3: in every persisted state the two pending fields are both empty or both
\* non-empty, and when non-empty they hold the exchange of the most recently
\* completed turn.
C3_PendingPaired ==
  /\ (state.pendingUserMsg = "") <=> (state.pendingAssistantMsg = "")
  /\ state.pendingUserMsg # "" =>
       /\ Len(log) >= 1
       /\ state.pendingUserMsg = log[Len(log)].user
       /\ state.pendingAssistantMsg = log[Len(log)].assistant

CalledGather(r) == req[r].run # 0 \/ req[r].route \in {"more", "auto-more"}

\* C4: a turn that calls no gather run and arrives while none is in flight
\* writes the durable state exactly once, by its flush: no write while its
\* handler awaits, one write once the handler has returned.
C4_SingleDurableWrite ==
  \A r \in Reqs :
    (req[r].route # "noMessage" /\ ~CalledGather(r) /\ ~req[r].bgAtStart) =>
      /\ AwaitsModel(r) => req[r].writes = 0
      /\ req[r].pc \in {"kv", "done"} => req[r].writes = 1

\* C4 witness: such a turn awaited the model in its handler and has flushed.
C4_Witness ==
  \E r \in Reqs :
    /\ req[r].pc = "kv"
    /\ req[r].route \in {"clarify", "qa"}
    /\ ~req[r].bgAtStart
    /\ req[r].writes = 1

\* C5: when the handler of a turn reads the history to build the model context,
\* the exchange of the previous turn is at the end of the draft's chatHistory and
\* both pending fields of the draft are empty.
C5_HandlerSeesPreviousExchange ==
  \A r \in Reqs :
    (AwaitsModel(r) /\ Len(log) >= 1) =>
      /\ Len(req[r].history) >= 2
      /\ SubSeq(req[r].history, Len(req[r].history) - 1, Len(req[r].history))
           = HistoryOf(<<log[Len(log)]>>)
      /\ draft.pendingUserMsg = ""
      /\ draft.pendingAssistantMsg = ""

\* C6: the phase leaves clarification only in a turn whose message is the
\* sentinel; after a turn that arrived in clarification with any other message
\* the phase is still clarification.
C6_OnlySentinelLeavesClarification ==
  /\ [](\A r \in Reqs :
          ( /\ req[r].pc = "kv"
            /\ req[r].base.phase = "clarification"
            /\ req[r].msg # Sentinel )
          => state.phase = "clarification" /\ draft.phase = "clarification")
  /\ [][ ( \/ state.phase = "clarification" /\ state'.phase # "clarification"
           \/ draft.phase = "clarification" /\ draft'.phase # "clarification" )
         => \E r \in Reqs : InFlight(req'[r]) /\ req'[r].msg = Sentinel ]_vars

\* C6 witness: a turn with free text that contains the word plan has flushed in
\* clarification, the topic being set already.
C6_Witness ==
  \E r \in Reqs :
    /\ req[r].pc = "kv"
    /\ req[r].msg = "traffic forecasting plan"
    /\ req[r].base.phase = "clarification"
    /\ req[r].base.topic # ""
    /\ state.phase = "clarification"

\* C7: the persisted phase never moves to an earlier phase.
C7_PhaseNeverRegresses ==
  [][PhaseRank(state'.phase) >= PhaseRank(state.phase)]_vars

GeneratedPlan(r) == req[r].route = "plan" /\ req[r].run # 0

\* C8: when the turn that generated the plan produces its response, its gather
\* run has finished, the persisted phase is ongoing, and the response reports
\* phase ongoing and the number of persisted sources.
C8_PlanTurnAnswersAfterGather ==
  \A r \in Reqs :
    (GeneratedPlan(r) /\ req[r].pc = "done") =>
      /\ gather[req[r].run].pc = "done"
      /\ state.phase = "ongoing"
      /\ req[r].reply.phase = "ongoing"
      /\ req[r].reply.sourceCount = Len(state.sources)

\* C8 witness: a plan turn has answered, with sources found.
C8_Witness ==
  \E r \in Reqs :
    /\ GeneratedPlan(r)
    /\ req[r].pc = "done"
    /\ req[r].reply.message = PlanText
    /\ req[r].reply.sourceCount >= 1

CommittedAtStart(s) ==
  IF s.pendingUserMsg # "" /\ s.pendingAssistantMsg # ""
  THEN s.chatHistory \o HistoryOf(<<[user |-> s.pendingUserMsg, assistant |-> s.pendingAssistantMsg]>>)
  ELSE s.chatHistory

\* C9: the flush of a turn that ran gather inside the request writes the plan,
\* the sources, the insights and the phase gather last wrote, this turn's
\* exchange as pending, and the history committed at the start of the turn.
C9_FlushKeepsGatherWrites ==
  [][ \A r \in Reqs :
        (req[r].pc = "gather" /\ req'[r].pc = "kv") =>
          /\ state'.plan = state.plan /\ state.plan # null
          /\ state'.sources = state.sources
          /\ state'.paperInsights = state.paperInsights
          /\ state'.phase = state.phase
          /\ state'.pendingUserMsg = historyUserMsg(req[r].msg)
          /\ state'.pendingAssistantMsg = req'[r].response
          /\ state'.chatHistory = CommittedAtStart(req[r].base) ]_vars

\* C9 witness: such a turn has flushed after a gather run that found and
\* analysed sources, with an exchange committed at its start.
C9_Witness ==
  \E r \in Reqs :
    /\ GeneratedPlan(r)
    /\ req[r].pc = "kv"
    /\ Len(state.sources) >= 1
    /\ DOMAIN state.paperInsights # {}
    /\ Len(state.chatHistory) >= 2
    /\ state.pendingAssistantMsg = PlanText

\* C10: a turn that makes the plan-generation model call ends with a plan, a
\* phase beyond planning and a reply that is no error, also when the call fails.
C10_PlanCallFailureFallsBack ==
  \A r \in Reqs :
    (req[r].route = "plan" /\ req[r].pc = "kv") =>
      /\ state.plan # null
      /\ PhaseRank(state.phase) > PhaseRank("planning")
      /\ req[r].response # ErrorText

\* The texts that hold a JSON object whose subtopics and keywords both keep an
\* entry once the falsy ones are dropped.
UsablePlanText(raw) == raw.shape # "prose" /\ raw.subtopics > 0 /\ raw.keywords > 0

\* C11: for every text the model can return, generatePlan returns a plan with
\* non-empty subtopics and keywords: the parsed lists when both are non-empty,
\* the fallback otherwise; every plan the draft or the persisted state holds is
\* such a plan, and the turn goes from the one model call to the gather run
\* without another model call.
C11_PlanNeverEmpty ==
  /\ [](\A raw \in PlanTexts :
          LET p == generatePlan(raw, now)
          IN /\ p.subtopics # <<>> /\ p.keywords # <<>>
             /\ IF UsablePlanText(raw)
                THEN /\ Len(p.subtopics) = raw.subtopics
                     /\ Len(p.keywords) = raw.keywords
                     /\ Len(p.outline) = raw.outline
                ELSE p = fallbackPlan(now))
  /\ [](\A d \in {state, draft} :
          d.plan # null => d.plan.subtopics # <<>> /\ d.plan.keywords # <<>>)
  /\ [][ \A r \in Reqs :
           (req[r].pc = "planLLM" /\ req'[r].pc \notin {"planLLM", "idle"}) =>
             \/ req'[r].pc = "kv" /\ req'[r].response = ErrorText
             \/ /\ req'[r].pc = "gather"
                /\ \E raw \in PlanTexts : draft'.plan = generatePlan(raw, now) ]_vars

\* C11 witness: a plan turn is in its gather run with the fallback plan.
C11_Witness ==
  \E r \in Reqs :
    /\ req[r].pc = "gather"
    /\ draft.plan = fallbackPlan(now)
    /\ gather[req[r].run].pc = "search"

\* C12: every plan generatePlan returns has 5 to 6 subtopics, 8 to 12 keywords
\* and 6 to 8 outline steps.
C12_PlanSizes ==
  \A d \in {state, draft} :
    d.plan # null =>
      /\ Len(d.plan.subtopics) \in 5..6
      /\ Len(d.plan.keywords) \in 8..12
      /\ Len(d.plan.outline) \in 6..8

\* C13: when the handler of a turn throws, the flush stages the turn's message
\* and the error reply as the pending exchange and writes what the draft held
\* before the failure: the previous exchange committed to the history and, in a
\* first clarification turn, the topic.
C13_FailedTurnKeepsDraft ==
  \A r \in Reqs :
    (req[r].pc = "kv" /\ req[r].response = ErrorText) =>
      /\ state.pendingUserMsg = historyUserMsg(req[r].msg)
      /\ state.pendingAssistantMsg = ErrorText
      /\ state.chatHistory = CommittedAtStart(req[r].base)
      /\ (req[r].route = "clarify" /\ req[r].base.topic = "") => state.topic = req[r].msg

\* C14: a chat request whose body has no message is answered with a client
\* error (status 400 to 499) and leaves the persisted state unchanged.
C14_MissingMessageRejected ==
  /\ [](\A r \in Reqs : req[r].route = "noMessage" => req[r].reply.status \in 400..499)
  /\ [][ \A r \in Reqs :
           (req'[r].route = "noMessage" /\ req'[r] # req[r]) => state' = state ]_vars

NoRepeatedId(papers) ==
  \A i, j \in 1..Len(papers) : i # j => papers[i] # papers[j]

\* C15: in every persisted state each paper id occurs at most once in sources.
C15_SourcesHaveDistinctIds == NoRepeatedId(state.sources)

\* C15 witness: the searches of a run returned a paper more than once and the
\* run has persisted its sources.
C15_Witness ==
  \E g \in Gathers :
    /\ gather[g].pc = "analyze"
    /\ ~NoRepeatedId(gather[g].allPapers)
    /\ state.phase = "summarizing"
    /\ state.sources = gather[g].sources

\* The positions of allPapers that hold the first occurrence of their id.
FirstOccurrences(allPapers) ==
  {i \in 1..Len(allPapers) : \A j \in 1..(i - 1) : allPapers[j] # allPapers[i]}

\* sources is allPapers with every later occurrence of an id removed.
IsFirstSeenOrder(sources, allPapers) ==
  LET F == FirstOccurrences(allPapers)
  IN /\ Len(sources) = Cardinality(F)
     /\ \A n \in 1..Len(sources) :
          \E i \in F : allPapers[i] = sources[n] /\ Cardinality({j \in F : j < i}) = n - 1

OnlyRun(g) == \A h \in Gathers \ {g} : gather[h].pc = "idle"

\* C16: the sources a gather run persists are the concatenated search results in
\* keyword order with every later occurrence of an id removed, and they are
\* still the persisted sources while the run analyses and when it ends.
C16_SourcesInFirstSeenOrder ==
  /\ [][ \A g \in Gathers :
           /\ (gather[g].pc = "search" /\ gather'[g].pc = "analyze") =>
                IsFirstSeenOrder(state'.sources, gather'[g].allPapers)
           /\ (gather[g].pc = "search" /\ gather'[g].pc = "done") =>
                state'.sources = <<>> /\ gather[g].allPapers = <<>>
           /\ (gather[g].pc = "analyze" /\ gather'[g].pc = "done" /\ OnlyRun(g)) =>
                IsFirstSeenOrder(state'.sources, gather[g].allPapers) ]_vars
  /\ [](\A g \in Gathers :
          (gather[g].pc = "analyze" /\ OnlyRun(g)) =>
            IsFirstSeenOrder(state.sources, gather[g].allPapers))

\* C16 witness: a run is at its last analysis after searches that returned
\* paper 2 ahead of paper 1, or one paper twice.
C16_Witness ==
  \E g \in Gathers :
    /\ gather[g].pc = "analyze"
    /\ gather[g].i = Len(gather[g].sources)
    /\ \/ gather[g].allPapers = <<2, 1>> /\ state.sources = <<2, 1>>
       \/ gather[g].allPapers = <<2, 2>> /\ state.sources = <<2>>

\* C17: the persisted sources only grow: every write keeps the papers already
\* in sources, and the length never decreases.
C17_SourcesOnlyGrow ==
  [][ /\ Len(state'.sources) >= Len(state.sources)
      /\ \A i \in 1..Len(state.sources) :
           \E j \in 1..Len(state'.sources) : state'.sources[j] = state.sources[i] ]_vars

\* No two gather runs have overlapped: a second run record is used only while
\* the first is in flight.
RunsOneAfterAnother == \A g \in Gathers \ {1} : gather[g].pc = "idle"

\* C18: while gather runs execute one after another, every write keeps every
\* key of the persisted paperInsights.
C18_InsightKeysKept ==
  [][ RunsOneAfterAnother =>
        DOMAIN state.paperInsights \subseteq DOMAIN state'.paperInsights ]_vars

\* C18 witness: a second gather run, started by a turn, has ended; it analysed
\* another paper than the first, whose insight is still there.
C18_Witness ==
  /\ gather[1].pc = "done" /\ gather[1].bg
  /\ Len(state.sources) = 1
  /\ DOMAIN state.paperInsights = {1, 2}

\* C19: once a gather run has completed, every paper in sources has an entry
\* in paperInsights, however many sources the searches returned.
C19_EverySourceHasInsight ==
  (\E g \in Gathers : gather[g].pc = "done") =>
    \A i \in 1..Len(state.sources) : state.sources[i] \in DOMAIN state.paperInsights

\* The persisted state holds the full source list of run g and the insight of
\* every analysis the run has completed.
ProgressPersisted(s, run) ==
  /\ s.sources = run.sources
  /\ \A j \in 1..(run.i - 1) :
       /\ run.sources[j] \in DOMAIN s.paperInsights
       /\ s.paperInsights[run.sources[j]] = run.paperInsights[run.sources[j]]

\* C20: a gather run writes its deduplicated sources with phase summarizing
\* before its first analysis call and each insight before the next analysis
\* call; so at every point of the analysis, and after an interruption there, the
\* persisted state holds the full source list and the insights of the analyses
\* completed so far.
C20_AnalysisProgressIsDurable ==
  /\ [][ \A g \in Gathers :
           /\ (gather[g].pc = "search" /\ gather'[g].pc = "analyze") =>
                /\ state'.phase = "summarizing"
                /\ state'.sources = gather'[g].sources
                /\ gather'[g].sources # <<>>
           /\ (gather[g].pc = "analyze" /\ gather'[g].pc = "idle" /\ OnlyRun(g)) =>
                ProgressPersisted(state', gather[g]) ]_vars
  /\ [](\A g \in Gathers :
          (gather[g].pc = "analyze" /\ OnlyRun(g)) => ProgressPersisted(state, gather[g]))

\* C20 witness: a run was interrupted between its first and its second
\* analysis; the persisted state holds both sources and the first insight.
C20_Witness ==
  /\ \A g \in Gathers : gather[g].pc = "idle"
  /\ state.phase = "summarizing"
  /\ Len(state.sources) = 2
  /\ Cardinality(DOMAIN state.paperInsights) = 1
  /\ state.sources[1] \in DOMAIN state.paperInsights

\* C21: every gather run that is not itself interrupted comes to its end, and
\* the write that ends it leaves the persisted phase ongoing and no paper id
\* twice in sources; so does a run started after an interruption had left the
\* sources persisted and the analyses incomplete.
C21_LaterRunCompletes ==
  /\ [][ \A g \in Gathers :
           (Running(gather[g]) /\ gather'[g].pc = "done") =>
             state'.phase = "ongoing" /\ NoRepeatedId(state'.sources) ]_vars
  /\ \A g \in Gathers :
       Running(gather[g]) ~> (gather[g].pc \in {"done", "idle"})

\* C21 witness: a turn that arrived with the phase summarizing and no run in
\* flight (the run before it was interrupted) started a run, which has ended.
C21_Witness ==
  \E r \in Reqs :
    /\ req[r].route = "auto-more" /\ ~req[r].bgAtStart
    /\ req[r].pc = "done"
    /\ gather[1].pc = "done" /\ gather[1].bg
    /\ state.phase = "ongoing"
    /\ Len(state.sources) >= 1

\* The exchange e is in the history h, its user entry followed by its reply.
HoldsExchange(h, e) ==
  \E j \in 1..(Len(h) - 1) : SubSeq(h, j, j + 1) = HistoryOf(<<e>>)

\* C29: turns behave as if processed one at a time, also when one begins while
\* another awaits an external call: once they have completed, every completed
\* exchange is in the history the next turn will read (the persisted
\* chatHistory with the staged pair). Stated for the clarification phase and
\* for exchanges with a non-empty message and a reply that is no error.
C29_OverlappingTurnsKeepExchanges ==
  ( /\ NoTurnInFlight
    /\ state.phase = "clarification"
    /\ \A i \in 1..Len(log) :
         log[i].user # "" /\ log[i].assistant \notin {"", ErrorText} )
  => \A i \in 1..Len(log) : HoldsExchange(CommittedAtStart(state), log[i])

\* C22: once the persisted topic is non-empty, no write changes it.
C22_TopicImmutable ==
  [][state.topic # "" => state'.topic = state.topic]_vars

\* C22 witness: with the topic set by the first message, a later clarification
\* turn with another message has flushed.
C22_Witness ==
  \E r \in Reqs :
    /\ req[r].pc = "kv" /\ req[r].route = "clarify"
    /\ req[r].base.topic # ""
    /\ req[r].msg \notin {"", req[r].base.topic}
    /\ state.topic = req[r].base.topic

C23_FactsWrittenOnce ==
  [][ \A f \in DOMAIN NoClarifications :
        state.clarifications[f] # "" =>
          state'.clarifications[f] = state.clarifications[f] ]_vars

\* C23 witness: with level, purpose and focus set from an earlier message, a
\* clarification turn whose message states another level, purpose and focus
\* has flushed.
C23_Witness ==
  \E r \in Reqs :
    /\ req[r].pc = "kv" /\ req[r].route = "clarify"
    /\ req[r].msg = "undergrad course assignment about queueing at busy road junctions"
    /\ state.clarifications =
         [ academic_level |-> "PhD student", purpose |-> "thesis",
           focus_area |-> "phd thesis on graph networks for city traffic" ]


\* C28: no searchArxiv call throws: whatever the external call meets, the
\* search loop's catch is never entered.
C28_SearchNeverThrows == \A g \in Gathers : ~gather[g].caught


C27_ListingShowsEverySource ==
  \A r \in Reqs :
    (req[r].pc = "kv" /\ req[r].route \in {"list", "auto-list"}) =>
      req[r].listed = Len(req[r].base.sources)


\* A chat turn r arrives in this step with the persisted phase ongoing.
OngoingTurnArrives(r) ==
  ~InFlight(req[r]) /\ InFlight(req'[r]) /\ state.phase = "ongoing"

\* C26: a turn of the ongoing phase takes the branch of the first trigger set
\* its message matches, in the order progress, listing, more sources; a
\* message with a progress or listing trigger starts no gather run and calls
\* no model even when it also holds a more-sources trigger; and a message
\* with no trigger awaits one model call, after which the turn is at its flush.
C26_FirstMatchingIntentOnly ==
  /\ [][ \A r \in Reqs : OngoingTurnArrives(r) =>
           LET m == req'[r].msg
               progress == IncludesAny(m, ProgressTriggers)
               listing == IncludesAny(m, ListTriggers)
               more == IncludesAny(m, MoreTriggers)
           IN /\ progress => req'[r].route = "progress"
              /\ (~progress /\ listing) => req'[r].route = "list"
              /\ (~progress /\ ~listing /\ more) => req'[r].route = "more"
              /\ (progress \/ listing) => gather' = gather /\ req'[r].pc = "kv"
              /\ (~progress /\ ~listing /\ ~more) =>
                   /\ req'[r].route = "qa" /\ req'[r].pc = "ongoingLLM"
                   /\ gather' = gather ]_vars
  /\ [][ \A r \in Reqs :
           (req[r].pc = "ongoingLLM" /\ req'[r].pc # "ongoingLLM") =>
             req'[r].pc \in {"kv", "idle"} ]_vars

\* C26 witness: a turn of the ongoing phase whose message holds a progress
\* trigger and a more-sources trigger has flushed the progress report, and no
\* gather run was started.
C26_Witness ==
  \E r \in Reqs :
    /\ req[r].pc = "kv" /\ req[r].msg = "show progress and add more"
    /\ req[r].base.phase = "ongoing" /\ req[r].route = "progress"
    /\ req[r].response = ProgressText
    /\ \A g \in Gathers : ~Running(gather[g])


\* A background gather run, the only one of its time, has ended and a chat turn
\* that arrived while it was in progress has answered.
BothFinished ==
  /\ NoTurnInFlight
  /\ RunsOneAfterAnother
  /\ \E g \in Gathers : gather[g].bg /\ gather[g].pc = "done"
  /\ \E r \in Reqs : req[r].pc = "done" /\ req[r].bgAtStart

\* Every exchange so far has a non-empty message and a usable reply.
UsableExchanges ==
  \A i \in 1..Len(log) : log[i].user # "" /\ log[i].assistant \notin {"", ErrorText}

\* The persisted state holds the last exchange as pending and the earlier ones
\* in chatHistory.
HoldsEveryExchange ==
  /\ Len(log) >= 1
  /\ state.pendingUserMsg = log[Len(log)].user
  /\ state.pendingAssistantMsg = log[Len(log)].assistant
  /\ state.chatHistory = HistoryOf(SubSeq(log, 1, Len(log) - 1))

\* The background run g, no other run overlapping it, ends in this step,
\* persisting its sources, an insight for each paper it analysed, and the phase
\* ongoing.
RunEndsWithItsResults(g) ==
  (gather[g].bg /\ Running(gather[g]) /\ gather'[g].pc = "done" /\ OnlyRun(g)) =>
    LET sources == IF gather[g].pc = "analyze" THEN gather[g].sources ELSE <<>>
    IN /\ state'.phase = "ongoing"
       /\ state'.sources = sources
       /\ \A i \in 1..Min(AnalyzeLimit, Len(sources)) :
            sources[i] \in DOMAIN state'.paperInsights

\* A step of a chat turn leaves the persisted sources and insights as they are.
TurnKeepsGathered ==
  (gather' = gather) =>
    state'.sources = state.sources /\ state'.paperInsights = state.paperInsights

\* C30: a background gather run and a chat turn that arrives while it is in
\* progress do not overwrite each other's writes: the run ends with its
\* sources, its insights and the phase ongoing persisted, no step of a turn
\* changes them, and once both have finished the persisted state holds the
\* turn's exchange as pending and every earlier exchange in chatHistory.
C30_GatherAndTurnKeepWrites ==
  /\ [][\A g \in Gathers : RunEndsWithItsResults(g)]_vars
  /\ [][TurnKeepsGathered]_vars
  /\ []((BothFinished /\ UsableExchanges) => (state.phase = "ongoing" /\ HoldsEveryExchange))


\* C31: in every persisted state chatHistory has even length and its entries
\* alternate user, assistant, starting with a user entry.
C31_HistoryAlternates ==
  /\ Len(state.chatHistory) % 2 = 0
  /\ \A i \in 1..Len(state.chatHistory) :
       state.chatHistory[i].role = IF i % 2 = 1 THEN "user" ELSE "assistant"

\* C31 witness: two exchanges have been committed one after the other, and a
\* third is pending.
C31_Witness ==
  /\ Len(state.chatHistory) = 4
  /\ state.chatHistory[3].role = "user"
  /\ state.chatHistory[4].role = "assistant"
  /\ state.chatHistory[4].content # ""
  /\ state.pendingAssistantMsg # ""


\* C40: applied to a persisted state or a draft without a complete pending
\* pair, at any time, commitPending returns it unchanged, lastUpdated included.
C40_CommitWithoutPairIsNoOp ==
  \A d \in {state, draft} :
    (d.pendingUserMsg = "" \/ d.pendingAssistantMsg = "") =>
      \A t \in 0..(now + 1) : commitPending(d, t) = d

\* C40 witness: a turn arrived on a state whose pending pair held a message but
\* no reply, and its draft, commitPending having run, still equals that state.
C40_Witness ==
  \E r \in Reqs :
    /\ req[r].pc = "clarLLM"
    /\ req[r].base.pendingUserMsg # "" /\ req[r].base.pendingAssistantMsg = ""
    /\ req[r].base.lastUpdated < now
    /\ draft = req[r].base


\* C37: a sentinel turn that arrives while the topic is empty reaches its flush
\* in the step it arrives in, so it awaits no model call; it starts no gather
\* run, leaves the persisted phase and plan as they were, and persists the
\* request for the topic, with the sentinel's label, as the pending exchange.
C37_SentinelWithoutTopicAsksForIt ==
  [][ \A r \in Reqs :
        ( /\ ~InFlight(req[r]) /\ InFlight(req'[r])
          /\ req'[r].msg = Sentinel /\ state.topic = "" ) =>
          /\ req'[r].pc = "kv"
          /\ req'[r].response = AskTopicText
          /\ gather' = gather
          /\ state'.phase = state.phase /\ state'.plan = state.plan
          /\ state'.topic = ""
          /\ state'.pendingUserMsg = historyUserMsg(Sentinel)
          /\ state'.pendingAssistantMsg = AskTopicText ]_vars

\* C37 witness: the first turn of a workspace carried the sentinel and has
\* answered with the request for the topic, the phase still clarification.
C37_Witness ==
  \E r \in Reqs :
    /\ req[r].pc = "done" /\ req[r].route = "askTopic"
    /\ req[r].reply.status = 200 /\ req[r].reply.message = AskTopicText
    /\ req[r].reply.phase = "clarification"
    /\ state.phase = "clarification" /\ state.plan = null /\ state.topic = ""
    /\ state.pendingAssistantMsg = AskTopicText


AutoRoutes == {"auto-progress", "auto-list", "auto-more", "auto-qa"}

\* C33: a turn handled that way persists the phase ongoing with its flush, and,
\* when no gather run wrote during the turn, reports the phase ongoing.
C33_ReentryPersistsOngoing ==
  /\ [][ \A r \in Reqs :
           (req[r].pc # "kv" /\ req'[r].pc = "kv" /\ req'[r].route \in AutoRoutes) =>
             state'.phase = "ongoing" ]_vars
  /\ [](\A r \in Reqs :
          ( /\ req[r].pc = "done" /\ req[r].route \in AutoRoutes \ {"auto-more"}
            /\ ~req[r].bgAtStart ) =>
            req[r].reply.phase = "ongoing")


\* C34: a workspace whose persisted phase is gathering or summarizing, with no
\* gather run active, no turn in flight and a turn still to come, reaches the
\* persisted phase ongoing.
C34_NoWorkspaceStuck ==
  ( /\ state.phase \in {"gathering", "summarizing"}
    /\ \A g \in Gathers : ~Running(gather[g])
    /\ NoTurnInFlight
    /\ now < 2 + MaxRecoverTurns )
  ~> (state.phase = "ongoing")


\* C35: once no gather run is in progress, the persisted paperInsights holds
\* every key of the paperInsights object each finished run wrote, also when
\* the runs overlapped.
C35_OverlappingRunsKeepInsights ==
  (\A g \in Gathers : ~Running(gather[g])) =>
    \A g \in Gathers :
      gather[g].pc = "done" =>
        DOMAIN gather[g].paperInsights \subseteq DOMAIN state.paperInsights


\* C39: a gather run awaits one call at a time: the search of keyword k of the
\* plan, for k = 1, 2, ... up to the fourth at most, then the analysis of
\* source i, for i = 1, 2, ... up to the eighth at most, each issued when the
\* one before has returned.
C39_CallsBoundedAndInOrder ==
  /\ [](\A g \in Gathers :
          /\ gather[g].pc = "search" =>
               /\ gather[g].k \in 1..SearchKeywordLimit
               /\ gather[g].k <= Len(gather[g].keywords)
               /\ draft.plan # null =>
                    gather[g].keywords[gather[g].k] = draft.plan.keywords[gather[g].k]
          /\ gather[g].pc = "analyze" =>
               /\ gather[g].i \in 1..AnalyzeLimit
               /\ gather[g].i <= Len(gather[g].sources)
               /\ gather[g].sources = Dedup(gather[g].allPapers, {}))
  /\ [][ \A g \in Gathers :
           /\ (gather[g].pc = "search" /\ gather'[g].pc = "search") =>
                gather'[g].k \in {gather[g].k, gather[g].k + 1}
           /\ (gather[g].pc = "search" /\ gather'[g].pc = "analyze") => gather'[g].i = 1
           /\ (gather[g].pc = "analyze" /\ gather'[g].pc = "analyze") =>
                gather'[g].i \in {gather[g].i, gather[g].i + 1}
           /\ gather[g].pc = "analyze" => gather'[g].pc # "search" ]_vars

\* C39 witness: a run whose plan has eight keywords has made its four searches
\* and awaits its eighth analysis, with more than eight sources found.
C39_Witness ==
  /\ gather[1].pc = "analyze" /\ gather[1].i = AnalyzeLimit
  /\ Len(gather[1].keywords) = SearchKeywordLimit
  /\ Len(draft.plan.keywords) > SearchKeywordLimit
  /\ Len(gather[1].sources) > AnalyzeLimit


\* The pairs of a conversation of exchanges followed by the message m: each
\* reply that is not empty with the user message that came next.
ExpectedPairs(exchanges, m) ==
  LET Q == {j \in 1..Len(exchanges) : exchanges[j].assistant # ""}
      nth(k) == CHOOSE j \in Q : Cardinality({i \in Q : i < j}) = k - 1
      next(j) == IF j < Len(exchanges) THEN exchanges[j + 1].user ELSE m
  IN [k \in 1..Cardinality(Q) |-> Pair(exchanges[nth(k)].assistant, next(nth(k)))]

\* C36: the transcript a clarification turn gives the model holds, in order,
\* one pair for each question asked so far, with the user message that
\* followed it, the current message for the most recent one.
C36_TranscriptPairsEveryQuestion ==
  \A r \in Reqs :
    (req[r].pc = "clarLLM" /\ req[r].route = "clarify") =>
      allPairs(req[r].history, req[r].msg) = ExpectedPairs(log, req[r].msg)


\* C32: the search expression of a query of more than one word is the AND of
\* the query's terms that are longer than three characters and are no
\* stopword, one operand per term, and is not the whole query as one operand.
C32_MultiWordQueryIsAndOfTerms ==
  \A g \in Gathers :
    gather[g].pc = "search" =>
      LET query == gather[g].keywords[gather[g].k]
          retained(t) == WordLength(t) > 3 /\ toLowerCase(t) \notin stopwords
          kept == SelectSeq(query, retained)
      IN Len(query) > 1 =>
           /\ searchExpr(query) = [i \in 1..Len(kept) |-> <<kept[i]>>]
           /\ searchExpr(query) # <<query>>

=============================================================================
